---- MODULE Spec2Model ----
(***************************************************************************)
(* A model of the two entry points of audamo: audamo.py (the current       *)
(* script) and auto_dark_mode.py (its predecessor, which still ships).     *)
(* One run of one script is one behaviour: main dispatches on the          *)
(* arguments, a theme is selected from a time window, the theme is applied *)
(* through gsettings and an optional custom script, and in daemon mode the *)
(* evaluation is repeated.  Everything outside the process (the clock, the *)
(* configuration file, the installed themes, the geolocation service, the  *)
(* astral library, the exit status of the commands) is an input.           *)
(***************************************************************************)
EXTENDS Integers, Sequences, FiniteSets, TLC

VARIABLES
    prog,       \* which script runs: "audamo" or "auto_dark_mode"
    args,       \* the parsed argparse.Namespace
    world,      \* what the commands and the custom script do on this machine
    disk,       \* the content of the configuration file, as it is on disk now
    cfg,        \* the dict load_config returned last (NoCfg before)
    cfgPath,    \* the path that dict was read from
    pc,         \* "main", "force", "once", "daemon", "sleep", "exit"
    exitCode,   \* the process's exit status once pc = "exit" (-1 before)
    err,        \* the exception that ended the last step ("none"); exit(0) where
                \* nothing is applied is "SystemExit"
    ticks,      \* evaluations made by run_as_daemon so far
    edits,      \* edits of the configuration file made while a daemon runs
    timer,      \* seconds the daemon's pending sleep() was asked to last
    strategy,   \* the branch the last evaluation took
    now,        \* the clock reading the last evaluation compared
    sunrise,    \* the window the last evaluation compared
    sunset,
    selected,   \* the theme the last evaluation passed to set_theme
    calls,      \* what the last evaluation invoked outside the process, in order
    applies,    \* calls of set_theme made in this run
    marker,     \* content of /tmp/audamo_current-theme
    evalDisk    \* the on-disk configuration at the moment of the last evaluation

vars == <<prog, args, world, disk, cfg, cfgPath, pc, exitCode, err, ticks, edits,
          timer, strategy, now, sunrise, sunset, selected, calls, applies, marker,
          evalDisk>>

(***************************************************************************)
(* Bounds of the exploration.                                              *)
(***************************************************************************)
MaxTicks == 2
MaxEdits == 1

(***************************************************************************)
(* Values.                                                                 *)
(***************************************************************************)
LIGHT == "light"
DARK == "dark"
Theme == {LIGHT, DARK}

TIME == "time"
LOCATION == "location"

\* Python's None for an optional string, and for an optional pair.
None == "None"
NoPair == <<>>

\* sleep(60 * 10)
PollSeconds == 600

T(h, m, s) == [hour |-> h, minute |-> m, second |-> s]
NoTime == T(0 - 1, 0 - 1, 0 - 1)
NoCfg == [loaded |-> FALSE]

\* datetime.time's ordering: the tuples (hour, minute, second) compared
\* lexicographically.
TimeLE(a, b) ==
    \/ a.hour < b.hour
    \/ a.hour = b.hour /\ a.minute < b.minute
    \/ a.hour = b.hour /\ a.minute = b.minute /\ a.second <= b.second

\* datetime.strptime(s, "%H:%M") of the text h:m, given as the pair <<h, m>>:
\* a datetime at second 0, or ValueError for an hour or minute out of range.
strptime(s) ==
    IF s[1] \in 0..23 /\ s[2] \in 0..59
    THEN [err |-> "none", t |-> T(s[1], s[2], 0)]
    ELSE [err |-> "ValueError", t |-> NoTime]

\* os.path.expanduser
expanduser(p) == IF p = "~/hook.sh" THEN "/home/user/hook.sh" ELSE p

\* find_available_themes(): the installed assets.  Cursors are looked up in the
\* icon directories.
find_available_themes ==
    [theme |-> {"Adwaita", "Adwaita-dark"},
     icon |-> {"Adwaita", "Adwaita-dark"},
     cursor |-> {"Adwaita", "Adwaita-dark"}]

(***************************************************************************)
(* Applying a theme.  A step is one thing set_theme does outside the       *)
(* process; the steps are run in order and the first that fails raises.    *)
(***************************************************************************)
Gsettings(key, value) == <<"gsettings", key, value>>
Warning(kind, name) == <<"warning", kind, name>>

\* run(cmd): does the command exit non-zero on this machine?
RunFails(step, w) == step[1] = "gsettings" /\ step[2] = w.failing

\* Does the step raise, and what?
StepError(step, w) ==
    CASE step[1] = "gsettings" /\ RunFails(step, w) -> "CalledProcessError"
      [] step[1] = "exists" /\ w.script = "missing" -> "FileNotFoundError"
      [] step[1] = "access" /\ w.script = "noexec" -> "PermissionError"
      [] step[1] = "script" /\ w.script = "fails" -> "CalledProcessError"
      [] OTHER -> "none"

\* The index of the first step that raises, 0 when none does.
FirstError(steps, w) ==
    LET bad == {i \in 1..Len(steps) : StepError(steps[i], w) /= "none"}
    IN IF bad = {} THEN 0 ELSE CHOOSE i \in bad : \A j \in bad : i <= j

\* A variant that logs a failed step and goes on with the next.
Execute_continue(steps, w) ==
    LET k == FirstError(steps, w)
    IN [calls |-> steps, err |-> IF k = 0 THEN "none" ELSE StepError(steps[k], w)]

\* The steps that were attempted and the exception that ended them.
Execute(steps, w) ==
    LET k == FirstError(steps, w)
    IN IF k = 0
       THEN [calls |-> steps, err |-> "none"]
       ELSE [calls |-> SubSeq(steps, 1, k), err |-> StepError(steps[k], w)]

\* A variant that runs the script without looking at the path first.
run_custom_script_unchecked(script_path, theme) ==
    << <<"script", expanduser(script_path), theme>> >>

\* run_custom_script(script_path, theme): os.path.exists, os.access(X_OK), then
\* subprocess.run([script_path, theme], check=True).
run_custom_script(script_path, theme) ==
    LET p == expanduser(script_path)
    IN << <<"exists", p>>, <<"access", p>>, <<"script", p, theme>> >>

CustomScriptSteps(path, theme) ==
    IF path /= None /\ path /= "" THEN run_custom_script(path, theme) ELSE <<>>

ThemeSteps(d, theme, available) ==
    IF d.theme /= ""
    THEN (IF d.theme \notin available.theme
          THEN <<Warning("theme", d.theme)>> ELSE <<>>)
         \o <<Gsettings("gtk-theme", d.theme),
              Gsettings("wm-theme", d.theme),
              Gsettings("color-scheme", IF theme = LIGHT THEN "prefer-light"
                                                         ELSE "prefer-dark")>>
    ELSE <<>>

IconSteps(d, available) ==
    IF d.icon /= ""
    THEN (IF d.icon \notin available.icon
          THEN <<Warning("icon", d.icon)>> ELSE <<>>)
         \o <<Gsettings("icon-theme", d.icon)>>
    ELSE <<>>

CursorSteps(d, available) ==
    IF d.cursor /= ""
    THEN (IF d.cursor \notin available.cursor
          THEN <<Warning("cursor", d.cursor)>> ELSE <<>>)
         \o <<Gsettings("cursor-theme", d.cursor)>>
    ELSE <<>>

\* A variant that writes the marker whether or not the steps went through.
set_theme_marks_anyway(c, theme, w, mark) ==
    LET d == IF theme = LIGHT THEN c.light ELSE c.dark
        steps == ThemeSteps(d, theme, find_available_themes)
                 \o IconSteps(d, find_available_themes)
                 \o CursorSteps(d, find_available_themes)
                 \o CustomScriptSteps(c.general.custom_script_path, theme)
        r == Execute(steps, w)
    IN [calls |-> r.calls \o << <<"marker", theme>> >>, err |-> r.err, marker |-> theme]

\* audamo.py set_theme(cfg, theme): the steps in the try block, then the marker.
set_theme(c, theme, w, mark) ==
    LET d == IF theme = LIGHT THEN c.light ELSE c.dark
        steps == ThemeSteps(d, theme, find_available_themes)
                 \o IconSteps(d, find_available_themes)
                 \o CursorSteps(d, find_available_themes)
                 \o CustomScriptSteps(c.general.custom_script_path, theme)
        r == Execute(steps, w)
    IN IF r.err = "none"
       THEN [calls |-> r.calls \o << <<"marker", theme>> >>, err |-> "none",
             marker |-> theme]
       ELSE [calls |-> r.calls, err |-> r.err, marker |-> mark]

\* auto_dark_mode.py set_theme(theme, config): no icon, no cursor, no marker.
adm_set_theme(theme, c, w, mark) ==
    LET name == IF theme = DARK THEN c.gtk_theme_dark ELSE c.gtk_theme_light
        steps == <<Gsettings("gtk-theme", name),
                   Gsettings("wm-theme", name),
                   Gsettings("color-scheme", IF theme = DARK THEN "prefer-dark"
                                                             ELSE "prefer-light")>>
                 \o CustomScriptSteps(c.custom_script_path, theme)
        r == Execute(steps, w)
    IN [calls |-> r.calls, err |-> r.err, marker |-> mark]

(***************************************************************************)
(* Selecting a theme.  An evaluation yields the branch taken, the window   *)
(* and clock reading compared, the theme passed to set_theme ("none" when  *)
(* set_theme was not reached), the exception raised ("none") and the       *)
(* outside calls made, in order.                                           *)
(***************************************************************************)
NoTheme == "none"

Res(st, e, th, nw, sr, ss, cs, mk) ==
    [strategy |-> st, err |-> e, theme |-> th, now |-> nw, sunrise |-> sr,
     sunset |-> ss, calls |-> cs, marker |-> mk]

\* requests.get("https://ipinfo.io/json"): a RequestException becomes SystemExit,
\* a malformed answer raises where it is read.
get_current_location_info(geo) ==
    CASE geo = "ok" -> [err |-> "none", latitude |-> "40.7", longitude |-> "-74.0"]
      [] geo = "RequestException" -> [err |-> "SystemExit", latitude |-> "", longitude |-> ""]
      [] OTHER -> [err |-> "KeyError", latitude |-> "", longitude |-> ""]

GeoCall == <<"geo", "https://ipinfo.io/json">>
SunCall(lat, lon) == <<"sun", lat, lon>>
TzCall(lat, lon) == <<"tz", lat, lon>>

\* ---- audamo.py ----

lat_lon_is_missing(c) == c.general.latitude = "" \/ c.general.longitude = ""

get_sunrise_sunset_from_location(c, geo, solar) ==
    LET missing == lat_lon_is_missing(c)
        g == IF missing
             THEN get_current_location_info(geo)
             ELSE [err |-> "none", latitude |-> c.general.latitude,
                   longitude |-> c.general.longitude]
        pre == IF missing THEN <<GeoCall>> ELSE <<>>
    IN IF g.err /= "none"
       THEN [err |-> g.err, sunrise |-> NoTime, sunset |-> NoTime, calls |-> pre]
       ELSE [err |-> solar.err, sunrise |-> solar.sunrise, sunset |-> solar.sunset,
             calls |-> pre \o <<SunCall(g.latitude, g.longitude)>>]

get_sunrise_sunset_from_config(c) ==
    LET sr == strptime(c.general.sunrise)
        ss == strptime(c.general.sunset)
    IN IF sr.err /= "none" \/ ss.err /= "none"
       THEN [err |-> "ValueError", sunrise |-> NoTime, sunset |-> NoTime, calls |-> <<>>]
       ELSE [err |-> "none", sunrise |-> sr.t, sunset |-> ss.t, calls |-> <<>>]

\* now.replace(hour=t.hour, minute=t.minute, second=0, microsecond=0)
TodayAt(t) == T(t.hour, t.minute, 0)

get_sunrise_sunset(c, geo, solar) ==
    LET w == IF c.general.mode = TIME
             THEN get_sunrise_sunset_from_config(c)
             ELSE get_sunrise_sunset_from_location(c, geo, solar)
    IN IF c.general.mode \notin {TIME, LOCATION}
       THEN [strategy |-> "invalid_mode", err |-> "ValueError", sunrise |-> NoTime,
             sunset |-> NoTime, calls |-> <<>>]
       ELSE [strategy |-> IF c.general.mode = TIME THEN "config_time"
                                                    ELSE "config_location",
             err |-> w.err,
             sunrise |-> IF w.err = "none" THEN TodayAt(w.sunrise) ELSE NoTime,
             sunset |-> IF w.err = "none" THEN TodayAt(w.sunset) ELSE NoTime,
             calls |-> w.calls]

\* A variant of the comparison that reads a window whose end is before its start
\* as running over midnight.
IsDaytime_overnight(sr, nw, ss) ==
    IF TimeLE(sr, ss) THEN TimeLE(sr, nw) /\ TimeLE(nw, ss)
                      ELSE TimeLE(sr, nw) \/ TimeLE(nw, ss)

\* A variant of the comparison that excludes the two boundaries.
IsDaytime_exclusive(sr, nw, ss) ==
    TimeLE(sr, nw) /\ sr /= nw /\ TimeLE(nw, ss) /\ nw /= ss

\* The comparison both scripts make: sunrise.time() <= now.time() <= sunset.time()
IsDaytime(sr, nw, ss) == TimeLE(sr, nw) /\ TimeLE(nw, ss)

set_theme_once(c, nw, geo, solar, w, mark) ==
    LET win == get_sunrise_sunset(c, geo, solar)
        theme == IF IsDaytime(win.sunrise, nw, win.sunset) THEN LIGHT ELSE DARK
        ap == set_theme(c, theme, w, mark)
    IN IF win.err /= "none"
       THEN Res(win.strategy, win.err, NoTheme, NoTime, NoTime, NoTime, win.calls, mark)
       ELSE Res(win.strategy, ap.err, theme, nw, win.sunrise, win.sunset,
                win.calls \o ap.calls, ap.marker)

\* ---- auto_dark_mode.py ----

adm_set_theme_from_time(a, c, nw, w, mark, st) ==
    LET sr == IF a.time /= NoPair THEN [err |-> "none", t |-> a.time[1]]
                                  ELSE strptime(c.sunrise)
        ss == IF a.time /= NoPair THEN [err |-> "none", t |-> a.time[2]]
                                  ELSE strptime(c.sunset)
        theme == IF IsDaytime(sr.t, nw, ss.t) THEN LIGHT ELSE DARK
        ap == adm_set_theme(theme, c, w, mark)
    IN IF sr.err /= "none" \/ ss.err /= "none"
       THEN Res(st, "ValueError", NoTheme, NoTime, NoTime, NoTime, <<>>, mark)
       ELSE Res(st, ap.err, theme, nw, sr.t, ss.t, ap.calls, ap.marker)

\* A variant that prefers the configured coordinates to the explicit ones.
adm_location_config_first(a, c, geo) ==
    IF c.latitude /= "" /\ c.longitude /= ""
    THEN [err |-> "none", latitude |-> c.latitude, longitude |-> c.longitude,
          calls |-> <<TzCall(c.latitude, c.longitude)>>]
    ELSE IF a.location /= NoPair
    THEN [err |-> "none", latitude |-> a.location[1], longitude |-> a.location[2],
          calls |-> <<TzCall(a.location[1], a.location[2])>>]
    ELSE LET g == get_current_location_info(geo)
         IN [err |-> g.err, latitude |-> g.latitude, longitude |-> g.longitude,
             calls |-> <<GeoCall>>]

\* The location branch of set_theme_from_location: where the coordinates come
\* from and what is called to get them and their timezone.
adm_location(a, c, geo) ==
    IF a.location /= NoPair
    THEN [err |-> "none", latitude |-> a.location[1], longitude |-> a.location[2],
          calls |-> <<TzCall(a.location[1], a.location[2])>>]
    ELSE IF c.latitude /= "" /\ c.longitude /= ""
    THEN [err |-> "none", latitude |-> c.latitude, longitude |-> c.longitude,
          calls |-> <<TzCall(c.latitude, c.longitude)>>]
    ELSE LET g == get_current_location_info(geo)
         IN [err |-> g.err, latitude |-> g.latitude, longitude |-> g.longitude,
             calls |-> <<GeoCall>>]

adm_set_theme_from_location(a, c, nw, geo, solar, w, mark, st) ==
    LET loc == adm_location(a, c, geo)
        theme == IF IsDaytime(solar.sunrise, nw, solar.sunset) THEN LIGHT ELSE DARK
        ap == adm_set_theme(theme, c, w, mark)
        sun == <<SunCall(loc.latitude, loc.longitude)>>
    IN IF loc.err /= "none"
       THEN Res(st, loc.err, NoTheme, NoTime, NoTime, NoTime, loc.calls, mark)
       ELSE IF solar.err /= "none"
       THEN Res(st, solar.err, NoTheme, NoTime, NoTime, NoTime, loc.calls \o sun, mark)
       ELSE Res(st, ap.err, theme, nw, solar.sunrise, solar.sunset,
                loc.calls \o sun \o ap.calls, ap.marker)

adm_force(theme, c, w, mark) ==
    LET ap == adm_set_theme(theme, c, w, mark)
    IN Res("force", ap.err, theme, NoTime, NoTime, NoTime, ap.calls, ap.marker)

\* A variant that tests --location before --time.
adm_set_theme_once_location_first(a, c, nw, geo, solar, w, mark) ==
    IF a.light THEN adm_force(LIGHT, c, w, mark)
    ELSE IF a.dark THEN adm_force(DARK, c, w, mark)
    ELSE IF a.location /= NoPair
    THEN adm_set_theme_from_location(a, c, nw, geo, solar, w, mark, "location_override")
    ELSE IF a.time /= NoPair
    THEN adm_set_theme_from_time(a, c, nw, w, mark, "time_override")
    ELSE IF c.mode = TIME
    THEN adm_set_theme_from_time(a, c, nw, w, mark, "config_time")
    ELSE IF c.mode = LOCATION
    THEN adm_set_theme_from_location(a, c, nw, geo, solar, w, mark, "config_location")
    ELSE Res("none", "none", NoTheme, NoTime, NoTime, NoTime, <<>>, mark)

\* A variant that looks at --light and --dark only after the configured mode.
adm_set_theme_once_force_last(a, c, nw, geo, solar, w, mark) ==
    IF a.time /= NoPair
    THEN adm_set_theme_from_time(a, c, nw, w, mark, "time_override")
    ELSE IF a.location /= NoPair
    THEN adm_set_theme_from_location(a, c, nw, geo, solar, w, mark, "location_override")
    ELSE IF c.mode = TIME
    THEN adm_set_theme_from_time(a, c, nw, w, mark, "config_time")
    ELSE IF c.mode = LOCATION
    THEN adm_set_theme_from_location(a, c, nw, geo, solar, w, mark, "config_location")
    ELSE IF a.light THEN adm_force(LIGHT, c, w, mark)
    ELSE IF a.dark THEN adm_force(DARK, c, w, mark)
    ELSE Res("none", "none", NoTheme, NoTime, NoTime, NoTime, <<>>, mark)

adm_set_theme_once(a, c, nw, geo, solar, w, mark) ==
    IF a.light THEN adm_force(LIGHT, c, w, mark)
    ELSE IF a.dark THEN adm_force(DARK, c, w, mark)
    ELSE IF a.time /= NoPair
    THEN adm_set_theme_from_time(a, c, nw, w, mark, "time_override")
    ELSE IF a.location /= NoPair
    THEN adm_set_theme_from_location(a, c, nw, geo, solar, w, mark, "location_override")
    ELSE IF c.mode = TIME
    THEN adm_set_theme_from_time(a, c, nw, w, mark, "config_time")
    ELSE IF c.mode = LOCATION
    THEN adm_set_theme_from_location(a, c, nw, geo, solar, w, mark, "config_location")
    ELSE Res("none", "none", NoTheme, NoTime, NoTime, NoTime, <<>>, mark)

(***************************************************************************)
(* Loading the configuration.  Whether the files exist and parse is read   *)
(* from the file system at each load.                                      *)
(***************************************************************************)
FsOutcomes == {"user", "system", "absent"}
ReadOutcomes == {"ok", "TOMLDecodeError"}

\* audamo.py get_config_path: the path, or exit(0) when no file is found.
get_config_path(args_config_path, fs) ==
    IF args_config_path = None
    THEN CASE fs = "user" -> [exit |-> FALSE, path |-> "~/.config/audamo/config.toml"]
           [] fs = "system" -> [exit |-> FALSE, path |-> "/usr/share/audamo/config.toml"]
           [] OTHER -> [exit |-> TRUE, path |-> None]
    ELSE [exit |-> FALSE, path |-> args_config_path]

load_config(args_config_path, fs, rd) ==
    LET gp == get_config_path(args_config_path, fs)
    IN [exit |-> gp.exit, path |-> gp.path,
        err |-> IF gp.exit \/ rd = "ok" THEN "none" ELSE rd]

\* auto_dark_mode.py load_config: no existence check, open() raises.
adm_load_config(args_config_path, fs, rd) ==
    LET path == IF args_config_path = None
                THEN "~/.config/auto-dark-mode/config.toml"
                ELSE args_config_path
    IN [exit |-> FALSE, path |-> path,
        err |-> IF args_config_path = None /\ fs /= "user" THEN "FileNotFoundError"
                ELSE IF rd = "ok" THEN "none" ELSE rd]

\* A variant that rejects the two flags together in one-shot runs only.
conflicting_flags_one_shot(a) == a.light /\ a.dark /\ ~a.daemon

\* if args.light and args.dark: ... exit(1)
conflicting_flags(a) == a.light /\ a.dark

\* The status the interpreter exits with when the exception e reaches the top.
ExitStatus(e) == IF e = "none" THEN 0 ELSE 1

\* run_as_daemon wraps its loop in try ... except KeyboardInterrupt: exit(0); any
\* other exception reaches the top.  Without the handler the interrupt would too.
DaemonExitStatus_uncaught(e) == ExitStatus(e)

DaemonExitStatus(e) == IF e = "KeyboardInterrupt" THEN 0 ELSE ExitStatus(e)

\* An evaluation r of the daemon that Ctrl-C cuts short after k of its outside
\* calls.  KeyboardInterrupt is no Exception, so no handler on the way (set_theme,
\* run, get_sunrise_sunset_from_location) stops it: the calls after the k-th are
\* never made, and the marker is written only if its write was among the first k.
\* Cut before the window is known, the evaluation selects nothing; cut before its
\* first lookup, it has not started on any branch.
Interrupted(r, k, mark) ==
    LET cs == SubSeq(r.calls, 1, k)
        lookups == Len(SelectSeq(r.calls, LAMBDA c : c[1] \in {"geo", "tz", "sun"}))
        decided == r.theme /= NoTheme /\ k >= lookups
        wrote == \E i \in 1..k : cs[i][1] = "marker"
    IN IF decided
       THEN Res(r.strategy, "KeyboardInterrupt", r.theme, r.now, r.sunrise, r.sunset,
                cs, IF wrote THEN r.marker ELSE mark)
       ELSE Res(IF k = 0 THEN "unset" ELSE r.strategy, "KeyboardInterrupt", NoTheme,
                NoTime, NoTime, NoTime, cs, mark)

\* The points of r at which the interrupt can arrive: before any call that r
\* makes, or after the last one if r ended without raising.
InterruptPoints(r) ==
    {k \in 0..Len(r.calls) : k < Len(r.calls) \/ r.err = "none"}

\* audamo.py run_as_daemon after set_theme_once returned: sleep_seconds += 60 * 10
\* reads a local that was never bound.
audamo_sleep_seconds == "UnboundLocalError"

(***************************************************************************)
(* Inputs.                                                                 *)
(***************************************************************************)
NowSamples ==
    {T(6, 29, 59), T(6, 30, 0), T(6, 30, 30), T(12, 0, 0),
     T(20, 0, 0), T(20, 0, 30), T(22, 0, 0)}

SolarOutcomes ==
    {[err |-> "none", sunrise |-> T(6, 30, 40), sunset |-> T(20, 0, 20)],
     [err |-> "none", sunrise |-> T(20, 0, 20), sunset |-> T(6, 30, 40)],
     [err |-> "ValueError", sunrise |-> NoTime, sunset |-> NoTime]}

GeoOutcomes == {"ok", "RequestException", "KeyError"}

ModeSamples == {TIME, LOCATION, "auto"}
WindowSamples == {<< <<6, 30>>, <<20, 0>> >>, << <<20, 0>>, <<6, 30>> >>,
                  << <<25, 0>>, <<20, 0>> >>}
LatLonSamples == {<<"", "">>, <<"52.5", "">>, <<"52.5", "13.4">>}
TimeArgSamples == {NoPair, <<T(6, 30, 0), T(20, 0, 0)>>, <<T(20, 0, 0), T(6, 30, 0)>>}
LocationArgSamples == {NoPair, <<"48.1", "11.6">>}
ConfigArgSamples == {None, "/etc/my.toml"}
ScriptSamples == {"", "~/hook.sh"}
FailingSamples == {"none", "gtk-theme", "wm-theme", "color-scheme", "icon-theme",
                   "cursor-theme"}
ScriptStates == {"ok", "missing", "noexec", "fails"}

CalmWorld == [failing |-> "none", script |-> "ok"]

Section(t, i, c) == [theme |-> t, icon |-> i, cursor |-> c]

AudamoCfg(mode, win, ll, script, light, dark) ==
    [general |-> [mode |-> mode, sunrise |-> win[1], sunset |-> win[2],
                  latitude |-> ll[1], longitude |-> ll[2],
                  custom_script_path |-> script],
     light |-> light, dark |-> dark]

AdmCfg(mode, win, ll, script, light, dark) ==
    [mode |-> mode, sunrise |-> win[1], sunset |-> win[2],
     latitude |-> ll[1], longitude |-> ll[2], custom_script_path |-> script,
     gtk_theme_light |-> light, gtk_theme_dark |-> dark]

Args(l, d, dm, pcfg, lt, tm, loc, c) ==
    [light |-> l, dark |-> d, daemon |-> dm, print_config |-> pcfg,
     list_themes |-> lt, time |-> tm, location |-> loc, config |-> c]

AudamoArgs ==
    {Args(l, d, FALSE, pcfg, lt, NoPair, NoPair, c) :
        l \in BOOLEAN, d \in BOOLEAN, pcfg \in BOOLEAN, lt \in BOOLEAN,
        c \in ConfigArgSamples}

AdmArgs ==
    {Args(l, d, FALSE, FALSE, FALSE, tm, loc, c) :
        l \in BOOLEAN, d \in BOOLEAN, tm \in TimeArgSamples,
        loc \in LocationArgSamples, c \in ConfigArgSamples}

LightSection == Section("Adwaita", "Adwaita", "Adwaita")
DarkSection == Section("Adwaita-dark", "Adwaita-dark", "Adwaita-dark")
DayWindow == << <<6, 30>>, <<20, 0>> >>

\* One-shot runs that differ in the arguments and in what the configuration
\* says about the window, on a machine where every command succeeds.
DecideInputs ==
    {<<"audamo", a, AudamoCfg(m, win, ll, "", LightSection, DarkSection),
       CalmWorld, "absent">> :
        a \in AudamoArgs, m \in ModeSamples, win \in WindowSamples, ll \in LatLonSamples}
    \cup
    {<<"auto_dark_mode", a, AdmCfg(m, win, ll, "", "Adwaita", "Adwaita-dark"),
       CalmWorld, "absent">> :
        a \in AdmArgs, m \in ModeSamples, win \in WindowSamples, ll \in LatLonSamples}

ApplyArgs ==
    {Args(l, FALSE, FALSE, FALSE, FALSE, NoPair, NoPair, None) : l \in BOOLEAN}

Worlds(script) ==
    {[failing |-> f, script |-> st] :
        f \in FailingSamples, st \in IF script = "" THEN {"ok"} ELSE ScriptStates}

\* One-shot runs that differ in the settings to apply and in what fails on the
\* machine.
ApplyInputsWith(sc) ==
    {<<"audamo", a, AudamoCfg(TIME, DayWindow, <<"", "">>, sc,
                              Section(t, i, c), Section("Adwaita-dark", i, "")),
       w, mk>> :
        a \in ApplyArgs, t \in {"", "Adwaita", "Bogus"},
        i \in {"", "Adwaita", "Bogus"}, c \in {"", "Adwaita"},
        w \in Worlds(sc), mk \in {"absent", DARK}}
    \cup
    {<<"auto_dark_mode", a, AdmCfg(TIME, DayWindow, <<"", "">>, sc, t, "Adwaita-dark"),
       w, "absent">> :
        a \in ApplyArgs, t \in {"", "Adwaita", "Bogus"}, w \in Worlds(sc)}

ApplyInputs == UNION {ApplyInputsWith(sc) : sc \in ScriptSamples}

DaemonWorlds == {CalmWorld, [failing |-> "gtk-theme", script |-> "ok"]}

\* Daemon runs.
DaemonInputs ==
    {<<"audamo", Args(l, d, TRUE, FALSE, FALSE, NoPair, NoPair, c),
       AudamoCfg(m, DayWindow, ll, "", LightSection, DarkSection), w, "absent">> :
        l \in BOOLEAN, d \in BOOLEAN, c \in ConfigArgSamples, m \in ModeSamples,
        ll \in {<<"", "">>, <<"52.5", "13.4">>}, w \in DaemonWorlds}
    \cup
    {<<"auto_dark_mode", Args(l, d, TRUE, FALSE, FALSE, tm, loc, None),
       AdmCfg(m, DayWindow, ll, "", "Adwaita", "Adwaita-dark"), w, "absent">> :
        l \in BOOLEAN, d \in BOOLEAN, tm \in {NoPair, <<T(6, 30, 0), T(20, 0, 0)>>},
        loc \in LocationArgSamples, m \in ModeSamples,
        ll \in {<<"", "">>, <<"52.5", "13.4">>}, w \in DaemonWorlds}

Init ==
    /\ \E inp \in DecideInputs \cup ApplyInputs \cup DaemonInputs :
          /\ prog = inp[1]
          /\ args = inp[2]
          /\ disk = inp[3]
          /\ world = inp[4]
          /\ marker = inp[5]
    /\ cfg = NoCfg
    /\ cfgPath = None
    /\ pc = "main"
    /\ exitCode = 0 - 1
    /\ err = "none"
    /\ ticks = 0
    /\ edits = 0
    /\ timer = 0
    /\ strategy = "unset"
    /\ now = NoTime
    /\ sunrise = NoTime
    /\ sunset = NoTime
    /\ selected = NoTheme
    /\ calls = <<>>
    /\ applies = 0
    /\ evalDisk = NoCfg

(***************************************************************************)
(* The run.                                                                *)
(***************************************************************************)
Exit(code, e) ==
    /\ pc' = "exit"
    /\ exitCode' = code
    /\ err' = e

\* What an evaluation leaves behind.
Evaluated(r) ==
    /\ strategy' = r.strategy
    /\ now' = r.now
    /\ sunrise' = r.sunrise
    /\ sunset' = r.sunset
    /\ selected' = r.theme
    /\ calls' = r.calls
    /\ marker' = r.marker
    /\ applies' = IF r.theme = NoTheme THEN applies ELSE applies + 1
    /\ evalDisk' = disk

NotEvaluated ==
    UNCHANGED <<strategy, now, sunrise, sunset, selected, calls, marker, applies,
                evalDisk>>

\* audamo.py main, up to the dispatch on --light, --dark and --daemon.
AudamoMain ==
    /\ prog = "audamo" /\ pc = "main"
    /\ \E fs \in FsOutcomes, rd \in ReadOutcomes :
          LET l == load_config(args.config, fs, rd)
          IN IF args.print_config
             THEN Exit(0, IF get_config_path(args.config, fs).exit THEN "SystemExit"
                                                                       ELSE "none")
                  /\ UNCHANGED <<cfg, cfgPath>>
             ELSE IF args.list_themes
             THEN Exit(0, "none") /\ UNCHANGED <<cfg, cfgPath>>
             ELSE IF conflicting_flags(args)
             THEN Exit(1, "none") /\ UNCHANGED <<cfg, cfgPath>>
             ELSE IF l.exit
             THEN Exit(0, "SystemExit") /\ UNCHANGED <<cfg, cfgPath>>
             ELSE IF l.err /= "none"
             THEN Exit(1, l.err) /\ UNCHANGED <<cfg, cfgPath>>
             ELSE /\ cfg' = disk
                  /\ cfgPath' = l.path
                  /\ pc' = IF args.light \/ args.dark THEN "force"
                           ELSE IF args.daemon THEN "daemon" ELSE "once"
                  /\ UNCHANGED <<exitCode, err>>
    /\ NotEvaluated
    /\ UNCHANGED <<prog, args, world, disk, ticks, edits, timer>>

\* audamo.py main: set_theme(cfg, Theme.LIGHT | Theme.DARK); exit(0)
AudamoForce ==
    /\ prog = "audamo" /\ pc = "force"
    /\ LET theme == IF args.light THEN LIGHT ELSE DARK
           ap == set_theme(cfg, theme, world, marker)
       IN /\ Evaluated(Res("force", ap.err, theme, NoTime, NoTime, NoTime, ap.calls,
                           ap.marker))
          /\ Exit(ExitStatus(ap.err), ap.err)
    /\ UNCHANGED <<prog, args, world, disk, cfg, cfgPath, ticks, edits, timer>>

\* audamo.py main: set_theme_once(cfg)
AudamoOnce ==
    /\ prog = "audamo" /\ pc = "once"
    /\ \E nw \in NowSamples, geo \in GeoOutcomes, solar \in SolarOutcomes :
          LET r == set_theme_once(cfg, nw, geo, solar, world, marker)
          IN Evaluated(r) /\ Exit(ExitStatus(r.err), r.err)
    /\ UNCHANGED <<prog, args, world, disk, cfg, cfgPath, ticks, edits, timer>>

\* audamo.py run_as_daemon: one pass of the loop body.
AudamoTick ==
    /\ prog = "audamo" /\ pc = "daemon" /\ ticks < MaxTicks
    /\ ticks' = ticks + 1
    /\ \E fs \in FsOutcomes, rd \in ReadOutcomes, nw \in NowSamples,
          geo \in GeoOutcomes, solar \in SolarOutcomes :
          LET l == load_config(None, fs, rd)
              r == set_theme_once(disk, nw, geo, solar, world, marker)
              after == audamo_sleep_seconds
          IN IF l.exit
             THEN Exit(0, "SystemExit") /\ NotEvaluated
                  /\ UNCHANGED <<cfg, cfgPath, timer>>
             ELSE IF l.err /= "none"
             THEN Exit(1, l.err) /\ NotEvaluated /\ UNCHANGED <<cfg, cfgPath, timer>>
             ELSE /\ cfg' = disk
                  /\ cfgPath' = l.path
                  /\ Evaluated(r)
                  /\ IF r.err /= "none"
                     THEN Exit(1, r.err) /\ UNCHANGED timer
                     ELSE IF after /= "none"
                     THEN Exit(1, after) /\ UNCHANGED timer
                     ELSE /\ pc' = "sleep"
                          /\ timer' = PollSeconds
                          /\ UNCHANGED <<exitCode, err>>
    /\ UNCHANGED <<prog, args, world, disk, edits>>

\* auto_dark_mode.py main: load the configuration, then check the flags.
AdmMain ==
    /\ prog = "auto_dark_mode" /\ pc = "main"
    /\ \E fs \in FsOutcomes, rd \in ReadOutcomes :
          LET l == adm_load_config(args.config, fs, rd)
          IN IF l.err /= "none"
             THEN Exit(1, l.err) /\ UNCHANGED <<cfg, cfgPath>>
             ELSE /\ cfg' = disk
                  /\ cfgPath' = l.path
                  /\ IF conflicting_flags(args)
                     THEN Exit(1, "none")
                     ELSE /\ pc' = IF args.daemon THEN "daemon" ELSE "once"
                          /\ UNCHANGED <<exitCode, err>>
    /\ NotEvaluated
    /\ UNCHANGED <<prog, args, world, disk, ticks, edits, timer>>

\* auto_dark_mode.py main: set_theme_once(args, config)
AdmOnce ==
    /\ prog = "auto_dark_mode" /\ pc = "once"
    /\ \E nw \in NowSamples, geo \in GeoOutcomes, solar \in SolarOutcomes :
          LET r == adm_set_theme_once(args, cfg, nw, geo, solar, world, marker)
          IN Evaluated(r) /\ Exit(ExitStatus(r.err), r.err)
    /\ UNCHANGED <<prog, args, world, disk, cfg, cfgPath, ticks, edits, timer>>

\* auto_dark_mode.py run_as_daemon: set_theme_once(args, config); sleep(60 * 10)
AdmTick ==
    /\ prog = "auto_dark_mode" /\ pc = "daemon" /\ ticks < MaxTicks
    /\ ticks' = ticks + 1
    /\ \E nw \in NowSamples, geo \in GeoOutcomes, solar \in SolarOutcomes :
          LET r == adm_set_theme_once(args, cfg, nw, geo, solar, world, marker)
          IN /\ Evaluated(r)
             /\ IF r.err /= "none"
                THEN Exit(1, r.err) /\ UNCHANGED timer
                ELSE /\ pc' = "sleep"
                     /\ timer' = PollSeconds
                     /\ UNCHANGED <<exitCode, err>>
    /\ UNCHANGED <<prog, args, world, disk, cfg, cfgPath, edits>>

\* Ctrl-C during a pass of audamo.py's loop body: in load_config, or at some
\* point of set_theme_once.
AudamoTickInterrupted ==
    /\ prog = "audamo" /\ pc = "daemon" /\ ticks < MaxTicks
    /\ ticks' = ticks + 1
    /\ \E fs \in FsOutcomes, rd \in ReadOutcomes, nw \in NowSamples,
          geo \in GeoOutcomes, solar \in SolarOutcomes :
          LET l == load_config(None, fs, rd)
              r == set_theme_once(disk, nw, geo, solar, world, marker)
          IN \/ /\ NotEvaluated
                /\ UNCHANGED <<cfg, cfgPath>>
             \/ /\ ~l.exit /\ l.err = "none"
                /\ cfg' = disk
                /\ cfgPath' = l.path
                /\ \E k \in InterruptPoints(r) : Evaluated(Interrupted(r, k, marker))
    /\ Exit(DaemonExitStatus("KeyboardInterrupt"), "KeyboardInterrupt")
    /\ UNCHANGED <<prog, args, world, disk, edits, timer>>

\* Ctrl-C during auto_dark_mode.py's set_theme_once(args, config) in the loop.
AdmTickInterrupted ==
    /\ prog = "auto_dark_mode" /\ pc = "daemon" /\ ticks < MaxTicks
    /\ ticks' = ticks + 1
    /\ \E nw \in NowSamples, geo \in GeoOutcomes, solar \in SolarOutcomes :
          LET r == adm_set_theme_once(args, cfg, nw, geo, solar, world, marker)
          IN \E k \in InterruptPoints(r) : Evaluated(Interrupted(r, k, marker))
    /\ Exit(DaemonExitStatus("KeyboardInterrupt"), "KeyboardInterrupt")
    /\ UNCHANGED <<prog, args, world, disk, cfg, cfgPath, edits, timer>>

\* sleep() returns and the loop starts over.
Wake ==
    /\ pc = "sleep"
    /\ pc' = "daemon"
    /\ timer' = 0
    /\ NotEvaluated
    /\ UNCHANGED <<prog, args, world, disk, cfg, cfgPath, exitCode, err, ticks, edits>>

\* Ctrl-C while the daemon sleeps: except KeyboardInterrupt: exit(0)
KeyboardInterrupt ==
    /\ pc = "sleep"
    /\ Exit(DaemonExitStatus("KeyboardInterrupt"), "KeyboardInterrupt")
    /\ timer' = 0
    /\ NotEvaluated
    /\ UNCHANGED <<prog, args, world, disk, cfg, cfgPath, ticks, edits>>

\* Somebody edits the configuration file while the daemon runs: a later sunrise,
\* or the other mode.
EditSamples == {"sunrise", "mode"}

Edited(d, e) ==
    LET g == IF prog = "audamo" THEN d.general ELSE d
        sr == IF g.sunrise = <<7, 0>> THEN <<6, 0>> ELSE <<7, 0>>
        m == IF g.mode = TIME THEN LOCATION ELSE TIME
    IN IF prog = "audamo"
       THEN IF e = "sunrise" THEN [d EXCEPT !.general.sunrise = sr]
                             ELSE [d EXCEPT !.general.mode = m]
       ELSE IF e = "sunrise" THEN [d EXCEPT !.sunrise = sr]
                             ELSE [d EXCEPT !.mode = m]


EditConfig ==
    /\ pc \in {"daemon", "sleep"} /\ edits < MaxEdits
    /\ edits' = edits + 1
    /\ \E e \in EditSamples : disk' = Edited(disk, e)
    /\ NotEvaluated
    /\ UNCHANGED <<prog, args, world, cfg, cfgPath, pc, exitCode, err, ticks, timer>>

Next ==
    \/ AudamoMain
    \/ AudamoForce
    \/ AudamoOnce
    \/ AudamoTick
    \/ AdmMain
    \/ AdmOnce
    \/ AdmTick
    \/ AudamoTickInterrupted
    \/ AdmTickInterrupted
    \/ Wake
    \/ KeyboardInterrupt
    \/ EditConfig

Spec == Init /\ [][Next]_vars

(***************************************************************************)
(* Properties.                                                             *)
(***************************************************************************)
Range(q) == {q[i] : i \in 1..Len(q)}
Seconds(t) == t.hour * 3600 + t.minute * 60 + t.second

\* The [general] table of the configuration (auto_dark_mode.py's file is flat).
General(c) == IF prog = "audamo" THEN c.general ELSE c

Evaluated_ == strategy /= "unset"
LocationCalls == {c \in Range(calls) : c[1] \in {"geo", "tz", "sun"}}

\* C1: once an evaluation has a window and a clock reading, the theme it selects
\* is LIGHT exactly when sunrise <= now <= sunset as times of day, both ends
\* included, and DARK otherwise.
C1_InclusiveWindow ==
    now /= NoTime =>
        /\ selected \in Theme
        /\ selected = LIGHT <=>
              (Seconds(sunrise) <= Seconds(now) /\ Seconds(now) <= Seconds(sunset))

\* C1 witness: the clock reads exactly sunset (20:00:00) and LIGHT was selected.
C1_Witness ==
    /\ now = T(20, 0, 0) /\ sunset = T(20, 0, 0) /\ sunrise = T(6, 30, 0)
    /\ selected = LIGHT

StrategyOrder ==
    <<"force", "time_override", "location_override", "config_time", "config_location">>

Matches(s) ==
    CASE s = "force" -> args.light \/ args.dark
      [] s = "time_override" -> args.time /= NoPair
      [] s = "location_override" -> args.location /= NoPair
      [] s = "config_time" -> General(cfg).mode = TIME
      [] s = "config_location" -> General(cfg).mode = LOCATION

\* C2: the branch an evaluation takes is the first of force, time override,
\* location override, mode TIME, mode LOCATION that matches, and that branch alone
\* is evaluated: a force reads no clock and resolves no location, a time branch
\* compares its own window and resolves no location, a location branch resolves
\* a location.
C2_FirstMatchWins ==
    Evaluated_ =>
        /\ \A i \in 1..Len(StrategyOrder) :
              (Matches(StrategyOrder[i]) /\ \A j \in 1..(i - 1) : ~Matches(StrategyOrder[j]))
                  => strategy = StrategyOrder[i]
        /\ (\A i \in 1..Len(StrategyOrder) : ~Matches(StrategyOrder[i]))
              => strategy \in {"none", "invalid_mode"} /\ selected = NoTheme
        /\ strategy = "force" =>
              /\ now = NoTime /\ LocationCalls = {}
              /\ selected = IF args.light THEN LIGHT ELSE DARK
        /\ strategy = "time_override" =>
              /\ LocationCalls = {}
              /\ now /= NoTime => sunrise = args.time[1] /\ sunset = args.time[2]
        /\ strategy = "location_override" =>
              /\ LocationCalls /= {}
              /\ \A c \in LocationCalls : c[1] /= "geo" /\ <<c[2], c[3]>> = args.location
        /\ strategy = "config_time" =>
              /\ LocationCalls = {}
              /\ now /= NoTime =>
                    /\ sunrise = T(General(cfg).sunrise[1], General(cfg).sunrise[2], 0)
                    /\ sunset = T(General(cfg).sunset[1], General(cfg).sunset[2], 0)
        /\ strategy = "config_location" =>
              /\ LocationCalls /= {}
              /\ \A c \in LocationCalls : c[1] /= "geo" =>
                    <<c[2], c[3]>> \in {<<General(cfg).latitude, General(cfg).longitude>>,
                                       <<"40.7", "-74.0">>}

\* C2 witness: --time and --location are both given and the configured mode is
\* LOCATION; the time override decided and nothing about a location was called.
C2_Witness ==
    /\ strategy = "time_override" /\ selected \in Theme /\ LocationCalls = {}
    /\ args.time /= NoPair /\ args.location /= NoPair
    /\ General(cfg).mode = LOCATION

\* C3: in a run with --light (without --dark) every theme handed to set_theme is
\* LIGHT, whatever the configuration says, a run that loaded its configuration
\* ends only after the forced theme was applied, and nothing about a location or
\* the sun is ever called; likewise --dark and DARK.
C3_ForceShortCircuits ==
    (args.light /= args.dark) =>
        LET forced == IF args.light THEN LIGHT ELSE DARK
        IN /\ selected \in {NoTheme, forced}
           /\ LocationCalls = {}
           /\ now = NoTime
           /\ (pc = "exit" /\ cfg /= NoCfg) => strategy = "force" /\ selected = forced
           /\ Evaluated_ => strategy = "force" /\ selected = forced

\* C3 witness: --light with mode = location and no coordinates configured (which
\* would need the geolocation lookup): LIGHT was applied and the run ended.
C3_Witness ==
    /\ args.light /\ ~args.dark /\ pc = "exit" /\ selected = LIGHT
    /\ General(cfg).mode = LOCATION /\ General(cfg).latitude = ""
    /\ Gsettings("color-scheme", "prefer-light") \in Range(calls)

\* C4: an evaluation that resolves a location consults exactly one source: the
\* explicit coordinates when given, else the configured ones when both are
\* non-empty, else the geolocation lookup; the lookup is called in the last case
\* only.
C4_LocationPrecedence ==
    strategy \in {"location_override", "config_location"} =>
        LET g == General(cfg)
            configured == g.latitude /= "" /\ g.longitude /= ""
            expected == IF args.location /= NoPair THEN args.location
                        ELSE IF configured THEN <<g.latitude, g.longitude>>
                        ELSE <<"40.7", "-74.0">>
        IN /\ GeoCall \in Range(calls) <=> (args.location = NoPair /\ ~configured)
           /\ \A c \in LocationCalls : c[1] /= "geo" => <<c[2], c[3]>> = expected
           /\ calls /= <<>>
           /\ calls[1] = IF args.location = NoPair /\ ~configured THEN GeoCall
                         ELSE IF prog = "audamo" THEN SunCall(expected[1], expected[2])
                         ELSE TzCall(expected[1], expected[2])

\* C4 witness: explicit and configured coordinates are both there; the sun was
\* computed for the explicit ones and no lookup was made.
C4_Witness ==
    /\ selected \in Theme
    /\ SunCall("48.1", "11.6") \in Range(calls)
    /\ GeoCall \notin Range(calls)
    /\ args.location = <<"48.1", "11.6">>
    /\ General(cfg).latitude = "52.5" /\ General(cfg).longitude = "13.4"

\* C5 as stated: whenever --light and --dark are both given, whatever else is
\* given, the run ends with exit code 1 and nothing was applied.
C5_ConflictAlwaysExitsOne ==
    (args.light /\ args.dark /\ pc = "exit") => exitCode = 1 /\ applies = 0

\* C5, amended: whenever --light and --dark are both given nothing is ever
\* evaluated or applied and the run never gets past main, and it ends with exit
\* code 1 unless --print-config or --list-themes is given too (audamo.py serves
\* those first and exits 0).
C5_ConflictExitsOne ==
    (args.light /\ args.dark) =>
        /\ applies = 0 /\ calls = <<>> /\ strategy = "unset" /\ selected = NoTheme
        /\ pc \in {"main", "exit"}
        /\ (pc = "exit" /\ ~args.print_config /\ ~args.list_themes) => exitCode = 1

\* C5 witness: --light --dark --daemon ended with exit code 1, nothing applied.
C5_Witness ==
    /\ args.light /\ args.dark /\ args.daemon
    /\ pc = "exit" /\ exitCode = 1 /\ applies = 0 /\ calls = <<>>

\* C6: an evaluation made from the configuration alone (no force, time or
\* location override) whose mode is neither "time" nor "location" ends in an
\* error and selects no theme.
C6_InvalidModeIsError ==
    (/\ Evaluated_
     /\ ~args.light /\ ~args.dark /\ args.time = NoPair /\ args.location = NoPair
     /\ General(cfg).mode \notin {TIME, LOCATION})
        => err /= "none" /\ exitCode /= 0 /\ selected = NoTheme

\* What the last evaluation did to apply its theme, and what set_theme does for
\* that theme on a machine where nothing fails.
ApplyCalls == SelectSeq(calls, LAMBDA c : c[1] \notin {"geo", "tz", "sun"})

PlannedCalls ==
    IF prog = "audamo" THEN set_theme(cfg, selected, CalmWorld, marker).calls
    ELSE adm_set_theme(selected, cfg, CalmWorld, marker).calls

SettingKey(kind) ==
    CASE kind = "theme" -> "gtk-theme" [] kind = "icon" -> "icon-theme"
      [] kind = "cursor" -> "cursor-theme"

C8_TickReloadsConfig ==
    ticks >= 2 => cfg = evalDisk

\* The exceptions an evaluate+apply can raise.
TickErrors ==
    {"ValueError", "SystemExit", "KeyError", "CalledProcessError",
     "FileNotFoundError", "PermissionError", "TOMLDecodeError"}

\* C9: a daemon tick whose evaluation or apply raised does not end the daemon:
\* the process has not exited because of it.
C9_DaemonSurvivesErrors ==
    (ticks >= 1 /\ Evaluated_ /\ err \in TickErrors) => pc /= "exit"

\* C10: a daemon tick that raised nothing is followed by a sleep of ten minutes
\* and then by another tick: the loop is left only by an interrupt (or, C9 aside,
\* by an error of the tick itself).
C10_DaemonKeepsTicking ==
    /\ pc = "sleep" => timer = PollSeconds
    /\ (ticks >= 1 /\ pc = "exit") => err \in TickErrors \cup {"KeyboardInterrupt"}

\* C11: a KeyboardInterrupt that reaches the daemon, in its sleep or in the
\* middle of an evaluate+apply, ends the process with status 0; the marker
\* changes on the way only if its write had been reached; and once the process
\* has exited nothing happens any more: no evaluation, no outside call, no
\* marker write, no further tick.
C11_InterruptStops ==
    /\ [](err = "KeyboardInterrupt" => pc = "exit" /\ exitCode = 0)
    /\ [][(err' = "KeyboardInterrupt" /\ marker' /= marker)
            => <<"marker", marker'>> \in Range(calls')]_vars
    /\ [][pc = "exit" => UNCHANGED vars]_vars

\* The interrupt arrived in the middle of an apply: some of its steps were made,
\* the rest never were.
C11_Witness ==
    /\ err = "KeyboardInterrupt" /\ pc = "exit" /\ exitCode = 0
    /\ selected \in Theme
    /\ ApplyCalls /= <<>>
    /\ Len(ApplyCalls) < Len(PlannedCalls)

\* C12: a one-shot run ends with exit code 0 only after a successful apply or
\* for an informational command, with 1 for --light with --dark, and with a
\* non-zero code whenever it ended on an error: a missing or unparsable
\* configuration file, an invalid mode, a location or a solar computation error.
C12_OneShotExitCodes ==
    (~args.daemon /\ pc = "exit") =>
        LET informational == args.print_config \/ args.list_themes
        IN /\ exitCode = 0 => (informational \/ (err = "none" /\ selected \in Theme))
           /\ (args.light /\ args.dark /\ ~informational) => exitCode = 1
           /\ err /= "none" => exitCode /= 0

\* The exceptions that end set_theme before its last line.
ApplyErrors == {"CalledProcessError", "FileNotFoundError", "PermissionError"}

\* C13: the marker of audamo.py holds the label of the last set_theme that went
\* through: a set_theme that returns leaves the marker equal to its own label,
\* whatever the marker held before; a set_theme that raises at a setting command
\* or in the custom script leaves the marker as it was; and nothing but a
\* set_theme changes it.
C13_MarkerIsLastSuccess ==
    [][/\ (prog = "audamo" /\ applies' = applies + 1
            /\ err' \in {"none", "UnboundLocalError"}) => marker' = selected'
       /\ (applies' = applies + 1 /\ err' \in ApplyErrors) => marker' = marker
       /\ applies' = applies => marker' = marker]_vars

\* The marker said "dark", the LIGHT apply made every setting and then its
\* custom script failed: the marker still says "dark".
C13_Witness ==
    /\ prog = "audamo" /\ applies = 1 /\ selected = LIGHT
    /\ err = "CalledProcessError" /\ world.script = "fails"
    /\ calls /= <<>> /\ calls[Len(calls)][1] = "script"
    /\ marker = DARK

\* C14: in an apply the custom script runs only if a path is configured, as the
\* last step before the marker, after every setting command planned for that
\* apply, with the selected label as its one argument, and right after the path
\* was found to exist and to be executable; an apply that gets through its
\* settings with a script configured does run it; and a script that is missing,
\* not executable or exits non-zero ends the apply with an error, exit code 1
\* and no marker write.
C14_ScriptRunsLast ==
    selected /= NoTheme =>
        LET ap == ApplyCalls
            path == General(cfg).custom_script_path
            p == expanduser(path)
            settings == {c \in Range(PlannedCalls) : c[1] = "gsettings"}
            reached == <<"exists", p>> \in Range(ap)
        IN /\ \A i \in 1..Len(ap) :
                 ap[i][1] = "script" =>
                     /\ path /= ""
                     /\ ap[i] = <<"script", p, selected>>
                     /\ i >= 3 /\ ap[i - 2] = <<"exists", p>> /\ ap[i - 1] = <<"access", p>>
                     /\ world.script \in {"ok", "fails"}
                     /\ \A c \in settings : \E j \in 1..(i - 1) : ap[j] = c
                     /\ \A j \in (i + 1)..Len(ap) : ap[j][1] = "marker"
           /\ path = "" => \A i \in 1..Len(ap) : ap[i][1] \notin {"exists", "access", "script"}
           /\ (path /= "" /\ err \in {"none", "UnboundLocalError"})
                 => <<"script", p, selected>> \in Range(ap)
           /\ (reached /\ world.script /= "ok" /\ err /= "KeyboardInterrupt") =>
                 /\ err = CASE world.script = "missing" -> "FileNotFoundError"
                             [] world.script = "noexec" -> "PermissionError"
                             [] OTHER -> "CalledProcessError"
                 /\ exitCode = 1
                 /\ \A i \in 1..Len(ap) : ap[i][1] /= "marker"
                 /\ ap[Len(ap)][1] = CASE world.script = "missing" -> "exists"
                                         [] world.script = "noexec" -> "access"
                                         [] OTHER -> "script"

\* Theme, icon and cursor were set, then the path was checked, then the script ran
\* with "light", then the marker was written.
C14_Witness ==
    /\ prog = "audamo" /\ selected = LIGHT /\ err = "none" /\ exitCode = 0
    /\ Len(calls) >= 9
    /\ calls[Len(calls)] = <<"marker", LIGHT>>
    /\ calls[Len(calls) - 1] = <<"script", expanduser(General(cfg).custom_script_path), LIGHT>>
    /\ calls[Len(calls) - 4][1] = "gsettings"

\* The window the last evaluation compared ends, as a time of day, strictly before
\* it starts.
InvertedWindow == now /= NoTime /\ TimeLE(sunset, sunrise) /\ sunset /= sunrise

\* C15: an evaluation whose window is inverted selects DARK whatever the clock
\* says, and the window is taken as it is: the evaluation raises no ValueError,
\* it goes on to apply DARK, and where no command fails and nobody interrupts
\* the apply ends without an error of its own.
C15_InvertedWindowIsDark ==
    InvertedWindow =>
        /\ selected = DARK
        /\ err /= "ValueError"
        /\ (world = CalmWorld /\ err /= "KeyboardInterrupt")
              => err \in {"none", "UnboundLocalError"} /\ ApplyCalls = PlannedCalls

\* Sunrise 20:00 and sunset 06:30 from the configuration, the clock at 22:00,
\* after the sunrise of the window: DARK was applied and the run ended well.
C15_Witness ==
    /\ InvertedWindow /\ strategy = "config_time"
    /\ now = T(22, 0, 0) /\ sunrise = T(20, 0, 0)
    /\ selected = DARK /\ err = "none" /\ exitCode = 0

====
